---- MODULE Spec2Model ----
(***************************************************************************)
(* A model of the depot Dagger module (depot/daggerverse).  The source     *)
(* tree holds four revisions of the module:                                *)
(*                                                                         *)
(*   src/depot/main.go             Build -> BuildArtifact, bake -> Container*)
(*   src/unnamed/part_000:1-328    build/bake with a docker host socket    *)
(*   src/unnamed/part_000:330-767  Build -> BuildArtifact, Bake -> Artifacts*)
(*   src/unnamed/part_001          build -> BuildArtifact, SBOMs           *)
(*                                                                         *)
(* Each entry point is a call that runs from "idle" to "returned".  A call *)
(* is cut at the two places where it blocks on the outside world: the HTTP *)
(* request of latestDepotVersion and the engine call that runs the         *)
(* container and reads metadata.json.  Strings are TLA+ strings; JSON      *)
(* values are tagged records [t, v]; a Go error is its message, and the    *)
(* nil error is NoErr.                                                     *)
(***************************************************************************)
EXTENDS Integers, Sequences, FiniteSets, TLC

VARIABLES
    pc,         \* position of the running call
    op,         \* the entry point that is running
    req,        \* its parameters
    args,       \* the local args []string
    container,  \* the local *Container: the With... calls applied so far
    live,       \* the locals still read once the engine call was issued
    requests,   \* GET requests the running call has sent the release endpoint
    ret,        \* what the call returned: (value, error)
    artifact,   \* the *BuildArtifact the caller holds
    out         \* what the last method call on it returned

vars == <<pc, op, req, args, container, live, requests, ret, artifact, out>>

-----------------------------------------------------------------------------
(* Bounds of the model.                                                    *)

\* A request sets at most MaxOpts options: flags, strings, list entries.
MaxOpts == 2
\* A metadata payload names at most MaxBlobs manifests and layers.
MaxBlobs == 2
\* The SBOM directory lists at most MaxSBOMs entries.
MaxSBOMs == 2

-----------------------------------------------------------------------------
(* Go values.                                                              *)

NoErr == "<nil>"
Nil == [kind |-> "nil"]

\* strings.HasPrefix, strings.TrimPrefix, strings.Join
HasPrefix(s, prefix) ==
    /\ Len(s) >= Len(prefix)
    /\ SubSeq(s, 1, Len(prefix)) = prefix

\* TrimPrefix that leaves the prefix in place: a faulty variant that
\* C11_UnixSocketWiring has to reject.
KeepPrefix(s, prefix) == s

TrimPrefix(s, prefix) ==
    IF HasPrefix(s, prefix) THEN SubSeq(s, Len(prefix) + 1, Len(s)) ELSE s

RECURSIVE Join(_, _)
Join(elems, sep) ==
    IF Len(elems) = 0 THEN ""
    ELSE IF Len(elems) = 1 THEN elems[1]
    ELSE elems[1] \o sep \o Join(Tail(elems), sep)

\* Sequences over S of length at most n.
RECURSIVE SeqsUpTo(_, _)
SeqsUpTo(S, n) ==
    IF n <= 0 THEN {<<>>}
    ELSE LET shorter == SeqsUpTo(S, n - 1)
         IN  shorter \cup {Append(s, x) : s \in {t \in shorter : Len(t) = n - 1}, x \in S}

\* All orders in which the elements of a finite set can be visited.
RECURSIVE Orders(_)
Orders(S) ==
    IF S = {} THEN {<<>>}
    ELSE UNION {{<<x>> \o o : o \in Orders(S \ {x})} : x \in S}

Range(f) == {f[i] : i \in DOMAIN f}

-----------------------------------------------------------------------------
(* Requests.  A request is the parameter list of an entry point.  The      *)
(* zero request has every optional parameter at its Go zero value; the     *)
(* requests of the model set at most MaxOpts options on top of it, a list  *)
(* entry counting as one option.                                           *)

ZeroRequest ==
    [depotVersion |-> "", token |-> "secret:DEPOT_TOKEN", project |-> "p1",
     directory |-> "dir:.", dockerfile |-> "", bakeFile |-> "docker-bake.hcl",
     platforms |-> <<>>, dockerHost |-> "", load |-> FALSE, sbom |-> FALSE,
     noCache |-> FALSE, noSave |-> FALSE, lint |-> FALSE, tags |-> <<>>,
     buildArgs |-> <<>>, labels |-> <<>>, outputs |-> <<>>, provenance |-> ""]

ScalarOptions ==
    {<<"depotVersion", "2.0.1">>,
     <<"dockerfile", "Dockerfile">>, <<"provenance", "mode=max">>,
     <<"load", TRUE>>, <<"sbom", TRUE>>, <<"noCache", TRUE>>,
     <<"noSave", TRUE>>, <<"lint", TRUE>>,
     <<"dockerHost", "unix:///var/run/docker.sock">>,
     <<"dockerHost", "unix:///tmp/d.sock">>,
     <<"dockerHost", "unix:/tmp/d.sock">>,
     <<"dockerHost", "tcp://10.0.0.1:2375">>,
     <<"dockerHost", "ssh://10.0.0.1">>,
     <<"dockerHost", "/var/run/docker.sock">>}

ListOptions ==
    {<<"tags", "app:1">>, <<"tags", "app:latest">>,
     <<"platforms", "linux/amd64">>, <<"platforms", "linux/arm64">>,
     <<"buildArgs", "A=1">>, <<"buildArgs", "B=2">>,
     <<"labels", "team=x">>, <<"labels", "env=y">>,
     <<"outputs", "type=oci">>, <<"outputs", "type=docker">>}

\* The values a sequence of list options gives list parameter f, in order.
ValuesOf(entries, f) ==
    LET sel == SelectSeq(entries, LAMBDA o : o[1] = f)
    IN  [i \in 1..Len(sel) |-> sel[i][2]]

WithOptions(scalars, entries) ==
    [f \in DOMAIN ZeroRequest |->
        IF f \in {o[1] : o \in ListOptions} THEN ValuesOf(entries, f)
        ELSE IF \E o \in scalars : o[1] = f
             THEN (CHOOSE o \in scalars : o[1] = f)[2]
             ELSE ZeroRequest[f]]

\* The requests over the given parameters with at most MaxOpts options set.
Requests(scalarParams, listParams) ==
    LET so == {o \in ScalarOptions : o[1] \in scalarParams}
        lo == {o \in ListOptions : o[1] \in listParams}
        sets == {S \in SUBSET so :
                    /\ Cardinality(S) <= MaxOpts
                    /\ \A x, y \in S : x[1] = y[1] => x = y}
    IN  UNION {{WithOptions(S, e) : e \in SeqsUpTo(lo, MaxOpts - Cardinality(S))}
               : S \in sets}


BuildRequests ==
    Requests({"depotVersion", "dockerfile", "sbom", "noCache",
              "noSave", "lint", "provenance"},
             {"platforms", "buildArgs", "labels", "outputs"})

BakeRequests ==
    Requests({"depotVersion", "sbom", "noCache", "noSave", "lint",
              "provenance"}, {})

bakeRequests ==
    Requests({"depotVersion", "sbom", "noCache", "lint",
              "provenance"}, {})

buildHostRequests ==
    Requests({"depotVersion", "dockerfile", "dockerHost", "load",
              "sbom", "noCache", "lint", "provenance"},
             {"tags", "platforms", "buildArgs", "labels", "outputs"})

bakeHostRequests ==
    Requests({"depotVersion", "dockerHost", "load", "sbom",
              "noCache", "lint", "provenance"}, {})

buildSBOMsRequests ==
    Requests({"depotVersion", "dockerfile", "sbom", "noCache",
              "lint", "provenance"},
             {"tags", "platforms", "buildArgs", "labels", "outputs"})

-----------------------------------------------------------------------------
(* Argument vectors.                                                       *)

\* The loop run from the last value to the first: a faulty variant that
\* C14_ListPairs has to reject.
RECURSIVE AppendEachBackwards(_, _, _)
AppendEachBackwards(a, flag, values) ==
    IF Len(values) = 0 THEN a
    ELSE AppendEachBackwards(a \o <<flag, values[Len(values)]>>, flag,
                             SubSeq(values, 1, Len(values) - 1))

\* for _, v := range values { args = append(args, flag, v) }
RECURSIVE AppendEach(_, _, _)
AppendEach(a, flag, values) ==
    IF Len(values) = 0 THEN a
    ELSE AppendEach(a \o <<flag, Head(values)>>, flag, Tail(values))

\* The append without its condition: a faulty variant that C13_SaveUnlessNoSave
\* has to reject.
AppendAlways(a, cond, extra) == a \o extra

\* if cond { args = append(args, extra...) }
AppendIf(a, cond, extra) == IF cond THEN a \o extra ELSE a

\* Depot.Build with sbom, no-cache and lint rendered before the lists: a
\* faulty variant that C17_OptionOrder has to reject.
BuildArgsFlagsFirst(r) ==
    LET a0 == <<"/usr/bin/depot", "build", ".", "--metadata-file=metadata.json">>
        a1 == AppendIf(a0, ~r.noSave, <<"--save">>)
        a2 == AppendIf(a1, r.sbom, <<"--sbom=true", "--sbom-dir=/mnt/sboms">>)
        a3 == AppendIf(a2, r.noCache, <<"--no-cache">>)
        a4 == AppendIf(a3, r.lint, <<"--lint">>)
        a5 == AppendEach(a4, "--platform", r.platforms)
        a6 == AppendEach(a5, "--build-arg", r.buildArgs)
        a7 == AppendEach(a6, "--label", r.labels)
        a8 == AppendEach(a7, "--output", r.outputs)
        a9 == AppendIf(a8, r.dockerfile # "", <<"--file", r.dockerfile>>)
    IN  AppendIf(a9, r.provenance # "", <<"--provenance", r.provenance>>)

\* Depot.Build with --file and --provenance appended whatever their values:
\* a faulty variant that C15_OmitsEmptyOptions has to reject.
BuildArgsPassesEmpty(r) ==
    LET a0 == <<"/usr/bin/depot", "build", ".", "--metadata-file=metadata.json">>
        a1 == AppendIf(a0, ~r.noSave, <<"--save">>)
        a2 == AppendEach(a1, "--platform", r.platforms)
        a3 == AppendEach(a2, "--build-arg", r.buildArgs)
        a4 == AppendEach(a3, "--label", r.labels)
        a5 == AppendEach(a4, "--output", r.outputs)
        a6 == a5 \o <<"--file", r.dockerfile>>
        a7 == a6 \o <<"--provenance", r.provenance>>
        a8 == AppendIf(a7, r.sbom, <<"--sbom=true", "--sbom-dir=/mnt/sboms">>)
        a9 == AppendIf(a8, r.noCache, <<"--no-cache">>)
    IN  AppendIf(a9, r.lint, <<"--lint">>)

\* Depot.Build of main.go (and of part_000's second file, line by line)
BuildArgs(r) ==
    LET a0 == <<"/usr/bin/depot", "build", ".", "--metadata-file=metadata.json">>
        a1 == AppendIf(a0, ~r.noSave, <<"--save">>)
        a2 == AppendEach(a1, "--platform", r.platforms)
        a3 == AppendEach(a2, "--build-arg", r.buildArgs)
        a4 == AppendEach(a3, "--label", r.labels)
        a5 == AppendEach(a4, "--output", r.outputs)
        a6 == AppendIf(a5, r.dockerfile # "", <<"--file", r.dockerfile>>)
        a7 == AppendIf(a6, r.provenance # "", <<"--provenance", r.provenance>>)
        a8 == AppendIf(a7, r.sbom, <<"--sbom=true", "--sbom-dir=/mnt/sboms">>)
        a9 == AppendIf(a8, r.noCache, <<"--no-cache">>)
    IN  AppendIf(a9, r.lint, <<"--lint">>)

\* Depot.Bake of part_000's second file
BakeArgs(r) ==
    LET a0 == <<"/usr/bin/depot", "bake", "-f", r.bakeFile,
                "--metadata-file=metadata.json">>
        a1 == AppendIf(a0, ~r.noSave, <<"--save">>)
        a2 == AppendIf(a1, r.sbom, <<"--sbom=true">>)
        a3 == AppendIf(a2, r.noCache, <<"--no-cache">>)
        a4 == AppendIf(a3, r.lint, <<"--lint">>)
    IN  AppendIf(a4, r.provenance # "", <<"--provenance", r.provenance>>)

\* bake of main.go
bakeArgs(r) ==
    LET a0 == <<"/usr/bin/depot", "bake", "-f", r.bakeFile>>
        a1 == AppendIf(a0, r.sbom, <<"--sbom=true">>)
        a2 == AppendIf(a1, r.noCache, <<"--no-cache">>)
        a3 == AppendIf(a2, r.lint, <<"--lint">>)
    IN  AppendIf(a3, r.provenance # "", <<"--provenance", r.provenance>>)

\* build of part_000's first file (the revision with a docker host)
buildHostArgs(r) ==
    LET a0 == <<"/usr/bin/depot", "build", ".">>
        a1 == AppendIf(a0, r.load, <<"--load">>)
        a2 == AppendIf(a1, r.sbom, <<"--sbom=true">>)
        a3 == AppendIf(a2, r.noCache, <<"--no-cache">>)
        a4 == AppendIf(a3, r.lint, <<"--lint">>)
        a5 == AppendEach(a4, "--tag", r.tags)
        a6 == AppendEach(a5, "--platform", r.platforms)
        a7 == AppendEach(a6, "--build-arg", r.buildArgs)
        a8 == AppendEach(a7, "--label", r.labels)
        a9 == AppendEach(a8, "--output", r.outputs)
        a10 == AppendIf(a9, r.dockerfile # "", <<"--file", r.dockerfile>>)
    IN  AppendIf(a10, r.provenance # "", <<"--provenance", r.provenance>>)

\* bake of part_000's first file
bakeHostArgs(r) ==
    LET a0 == <<"/usr/bin/depot", "bake", "-f", r.bakeFile>>
        a1 == AppendIf(a0, r.load, <<"--load">>)
        a2 == AppendIf(a1, r.sbom, <<"--sbom=true">>)
        a3 == AppendIf(a2, r.noCache, <<"--no-cache">>)
        a4 == AppendIf(a3, r.lint, <<"--lint">>)
    IN  AppendIf(a4, r.provenance # "", <<"--provenance", r.provenance>>)

\* build of part_001
buildSBOMsArgs(r) ==
    LET a0 == <<"/usr/bin/depot", "build", ".", "--metadata-file=metadata.json",
                "--save">>
        a1 == AppendEach(a0, "--tag", r.tags)
        a2 == AppendEach(a1, "--platform", r.platforms)
        a3 == AppendEach(a2, "--build-arg", r.buildArgs)
        a4 == AppendEach(a3, "--label", r.labels)
        a5 == AppendEach(a4, "--output", r.outputs)
        a6 == AppendIf(a5, r.dockerfile # "", <<"--file", r.dockerfile>>)
        a7 == AppendIf(a6, r.provenance # "", <<"--provenance", r.provenance>>)
        a8 == AppendIf(a7, r.sbom, <<"--sbom=true", "--sbom-dir=/mnt/sboms">>)
        a9 == AppendIf(a8, r.noCache, <<"--no-cache">>)
    IN  AppendIf(a9, r.lint, <<"--lint">>)

-----------------------------------------------------------------------------
(* Containers.  A *Container is the sequence of calls that built it.       *)

DefaultDockerHost == "unix:///var/run/docker.sock"

From(image) == [f |-> "From", a |-> image, b |-> ""]
WithMountedDirectory(path, dir) == [f |-> "WithMountedDirectory", a |-> path, b |-> dir]
WithEnvVariable(name, value) == [f |-> "WithEnvVariable", a |-> name, b |-> value]
WithSecretVariable(name, secret) == [f |-> "WithSecretVariable", a |-> name, b |-> secret]
WithWorkdir(path) == [f |-> "WithWorkdir", a |-> path, b |-> ""]
WithUnixSocket(path, source) == [f |-> "WithUnixSocket", a |-> path, b |-> source]
WithExec(argv) == [f |-> "WithExec", a |-> argv, b |-> "SkipEntrypoint"]

\* container := dag.Container().From(...)... of Build (main.go) and Bake (part_000)
ArtifactContainer(version, r) ==
    <<From("public.ecr.aws/depot/cli:" \o version),
      WithMountedDirectory("/mnt", r.directory),
      WithEnvVariable("DEPOT_PROJECT_ID", r.project),
      WithEnvVariable("DEPOT_DISABLE_OTEL", "true"),
      WithSecretVariable("DEPOT_TOKEN", r.token),
      WithWorkdir("/mnt")>>

\* container := dag.Container().From(...)... of bake (main.go)
bakeContainer(version, r) ==
    <<From("public.ecr.aws/depot/cli:" \o version),
      WithMountedDirectory("/mnt", r.directory),
      WithEnvVariable("DEPOT_PROJECT_ID", r.project),
      WithSecretVariable("DEPOT_TOKEN", r.token),
      WithWorkdir("/mnt")>>

\* container := dag.Container().From(...)... of part_000's first file and part_001
ghcrContainer(version, r) ==
    <<From("ghcr.io/depot/cli:" \o version),
      WithMountedDirectory("/mnt", r.directory),
      WithEnvVariable("DEPOT_PROJECT_ID", r.project),
      WithSecretVariable("DEPOT_TOKEN", r.token),
      WithWorkdir("/mnt")>>

\* The switch without `if dockerHost == "" { dockerHost = DefaultDockerHost }`:
\* a faulty variant that C10_SocketWiring has to reject.
WithDockerHostNoDefault(c, dockerHost) ==
    IF HasPrefix(dockerHost, "unix://")
    THEN c \o <<WithUnixSocket("/var/run/docker.sock", TrimPrefix(dockerHost, "unix://")),
                WithEnvVariable("DOCKER_HOST", "unix:///var/run/docker.sock")>>
    ELSE IF HasPrefix(dockerHost, "tcp://")
    THEN Append(c, WithEnvVariable("DOCKER_HOST", dockerHost))
    ELSE c

\* The switch with a `default:` case that hands the host on as it is: a
\* faulty variant that C22_UnknownSchemeIgnored has to reject.
WithDockerHostPassesAny(c, dockerHost) ==
    LET host == IF dockerHost = "" THEN DefaultDockerHost ELSE dockerHost
    IN  IF HasPrefix(host, "unix://")
        THEN c \o <<WithUnixSocket("/var/run/docker.sock", TrimPrefix(host, "unix://")),
                    WithEnvVariable("DOCKER_HOST", "unix:///var/run/docker.sock")>>
        ELSE Append(c, WithEnvVariable("DOCKER_HOST", host))

\* if dockerHost == "" {...}; switch {...} of build and bake, part_000's first file
WithDockerHost(c, dockerHost) ==
    LET host == IF dockerHost = "" THEN DefaultDockerHost ELSE dockerHost
    IN  IF HasPrefix(host, "unix://")
        THEN c \o <<WithUnixSocket("/var/run/docker.sock", TrimPrefix(host, "unix://")),
                    WithEnvVariable("DOCKER_HOST", "unix:///var/run/docker.sock")>>
        ELSE IF HasPrefix(host, "tcp://")
        THEN Append(c, WithEnvVariable("DOCKER_HOST", host))
        ELSE c


\* container.WithExec(args, ...) after the wiring, per entry point
BuildExec(version, r, a) == Append(ArtifactContainer(version, r), WithExec(a))
BakeExec(version, r, a) == Append(ArtifactContainer(version, r), WithExec(a))
bakeExec(version, r, a) == Append(bakeContainer(version, r), WithExec(a))
buildSBOMsExec(version, r, a) == Append(ghcrContainer(version, r), WithExec(a))
\* build with WithExec applied before the docker host is wired: a faulty
\* variant that C9_WiringBeforeExec has to reject.
buildHostExecWiresLate(version, r, a) ==
    WithDockerHost(Append(ghcrContainer(version, r), WithExec(a)), r.dockerHost)

buildHostExec(version, r, a) ==
    Append(WithDockerHost(ghcrContainer(version, r), r.dockerHost), WithExec(a))
bakeHostExec(version, r, a) ==
    Append(WithDockerHost(ghcrContainer(version, r), r.dockerHost), WithExec(a))

-----------------------------------------------------------------------------
(* JSON.  A JSON text is [t, v]: t is "invalid" for a text that does not   *)
(* parse, else the type of the value; an object is a function from its keys*)
(* to values, an array a sequence.  Each Unmarshal... decodes into one Go  *)
(* type as encoding/json does: null leaves the zero value, an absent key   *)
(* leaves the zero value, an unknown key is skipped, and a value of the    *)
(* wrong type is an error.  The result is [v, err].                        *)

JInvalid == [t |-> "invalid", v |-> ""]
JNull == [t |-> "null", v |-> ""]
JString(str) == [t |-> "string", v |-> str]
JNumber(n) == [t |-> "number", v |-> n]
JObject(fields) == [t |-> "object", v |-> fields]
JArray(elems) == [t |-> "array", v |-> elems]

ErrSyntax == "invalid character looking for beginning of value"
ErrType == "json: cannot unmarshal value into Go value"
ErrTypeMap == "json: cannot unmarshal value into Go value of type map[string]json.RawMessage"

\* The value under key k of object o, null when the key is absent.
Member(o, k) == IF k \in DOMAIN o.v THEN o.v[k] ELSE JNull

FirstErr(errs) ==
    IF \E i \in DOMAIN errs : errs[i] # NoErr
    THEN errs[CHOOSE i \in DOMAIN errs :
                 errs[i] # NoErr /\ \A j \in DOMAIN errs : errs[j] # NoErr => i <= j]
    ELSE NoErr

UnmarshalString(j) ==
    CASE j.t = "null" -> [v |-> "", err |-> NoErr]
      [] j.t = "string" -> [v |-> j.v, err |-> NoErr]
      [] OTHER -> [v |-> "", err |-> ErrType]

UnmarshalInt64(j) ==
    CASE j.t = "null" -> [v |-> 0, err |-> NoErr]
      [] j.t = "number" -> [v |-> j.v, err |-> NoErr]
      [] OTHER -> [v |-> 0, err |-> ErrType]

\* type OCIDescriptor: only Size is ever read
UnmarshalOCIDescriptor(j) ==
    CASE j.t = "null" -> [v |-> [Size |-> 0], err |-> NoErr]
      [] j.t = "object" ->
            LET size == UnmarshalInt64(Member(j, "size"))
            IN  [v |-> [Size |-> size.v], err |-> size.err]
      [] OTHER -> [v |-> [Size |-> 0], err |-> ErrType]

UnmarshalLayers(j) ==
    CASE j.t = "null" -> [v |-> <<>>, err |-> NoErr]
      [] j.t = "array" ->
            LET each == [i \in DOMAIN j.v |-> UnmarshalOCIDescriptor(j.v[i])]
            IN  [v |-> [i \in DOMAIN j.v |-> each[i].v],
                 err |-> FirstErr([i \in DOMAIN j.v |-> each[i].err])]
      [] OTHER -> [v |-> <<>>, err |-> ErrType]

\* type Manifest
UnmarshalManifest(j) ==
    CASE j.t = "null" -> [v |-> [Config |-> [Size |-> 0], Layers |-> <<>>], err |-> NoErr]
      [] j.t = "object" ->
            LET config == UnmarshalOCIDescriptor(Member(j, "config"))
                layers == UnmarshalLayers(Member(j, "layers"))
            IN  [v |-> [Config |-> config.v, Layers |-> layers.v],
                 err |-> FirstErr(<<config.err, layers.err>>)]
      [] OTHER -> [v |-> [Config |-> [Size |-> 0], Layers |-> <<>>], err |-> ErrType]

UnmarshalManifests(j) ==
    CASE j.t = "null" -> [v |-> <<>>, err |-> NoErr]
      [] j.t = "array" ->
            LET each == [i \in DOMAIN j.v |-> UnmarshalManifest(j.v[i])]
            IN  [v |-> [i \in DOMAIN j.v |-> each[i].v],
                 err |-> FirstErr([i \in DOMAIN j.v |-> each[i].err])]
      [] OTHER -> [v |-> <<>>, err |-> ErrType]

\* type DepotBuild
ZeroDepotBuild == [BuildID |-> "", ProjectID |-> ""]

UnmarshalDepotBuild(j) ==
    CASE j.t = "null" -> [v |-> ZeroDepotBuild, err |-> NoErr]
      [] j.t = "object" ->
            LET buildID == UnmarshalString(Member(j, "buildID"))
                projectID == UnmarshalString(Member(j, "projectID"))
            IN  [v |-> [BuildID |-> buildID.v, ProjectID |-> projectID.v],
                 err |-> FirstErr(<<buildID.err, projectID.err>>)]
      [] OTHER -> [v |-> ZeroDepotBuild, err |-> ErrType]

\* type Metadata of part_000's second file: the payload of one bake target
ZeroMetadata ==
    [ContainerImageDescriptor |-> [Size |-> 0], ImageName |-> "", Manifests |-> <<>>]

UnmarshalMetadata(j) ==
    CASE j.t = "invalid" -> [v |-> ZeroMetadata, err |-> ErrSyntax]
      [] j.t = "null" -> [v |-> ZeroMetadata, err |-> NoErr]
      [] j.t = "object" ->
            LET descriptor == UnmarshalOCIDescriptor(Member(j, "containerimage.descriptor"))
                imageName == UnmarshalString(Member(j, "image.name"))
                manifests == UnmarshalManifests(Member(j, "manifests"))
            IN  [v |-> [ContainerImageDescriptor |-> descriptor.v,
                        ImageName |-> imageName.v,
                        Manifests |-> manifests.v],
                 err |-> FirstErr(<<descriptor.err, imageName.err, manifests.err>>)]
      [] OTHER -> [v |-> ZeroMetadata, err |-> ErrType]

\* type Metadata of main.go (BuildMetadata of part_000): Metadata and DepotBuild
ZeroBuildMetadata ==
    [ContainerImageDescriptor |-> [Size |-> 0], DepotBuild |-> ZeroDepotBuild,
     ImageName |-> "", Manifests |-> <<>>]

\* The decoding of Build with `if err != nil { return nil, err }` left out, so
\* that what was decoded before the error is used: a faulty variant that
\* C19_NoPartialSuccess has to reject.
UnmarshalBuildMetadataLenient(j) ==
    LET metadata == UnmarshalMetadata(j)
        depotBuild == IF j.t = "object"
                      THEN UnmarshalDepotBuild(Member(j, "depot.build"))
                      ELSE [v |-> ZeroDepotBuild, err |-> NoErr]
    IN  [v |-> [ContainerImageDescriptor |-> metadata.v.ContainerImageDescriptor,
                DepotBuild |-> depotBuild.v,
                ImageName |-> metadata.v.ImageName,
                Manifests |-> metadata.v.Manifests],
         err |-> NoErr]

UnmarshalBuildMetadata(j) ==
    LET metadata == UnmarshalMetadata(j)
        depotBuild == IF j.t = "object"
                      THEN UnmarshalDepotBuild(Member(j, "depot.build"))
                      ELSE [v |-> ZeroDepotBuild, err |-> NoErr]
    IN  [v |-> [ContainerImageDescriptor |-> metadata.v.ContainerImageDescriptor,
                DepotBuild |-> depotBuild.v,
                ImageName |-> metadata.v.ImageName,
                Manifests |-> metadata.v.Manifests],
         err |-> FirstErr(<<metadata.err, depotBuild.err>>)]

\* func (m *Metadata) Size() int64
RECURSIVE SumLayers(_, _)
SumLayers(size, layers) ==
    IF Len(layers) = 0 THEN size
    ELSE SumLayers(size + Head(layers).Size, Tail(layers))

RECURSIVE SumManifests(_, _)
SumManifests(size, manifests) ==
    IF Len(manifests) = 0 THEN size
    ELSE SumManifests(SumLayers(size + Head(manifests).Config.Size,
                                Head(manifests).Layers),
                      Tail(manifests))

\* Size with `size += manifest.Config.Size` left out: a faulty variant that
\* C1_SizeIsSum has to reject.
RECURSIVE SumLayersOnly(_, _)
SumLayersOnly(size, manifests) ==
    IF Len(manifests) = 0 THEN size
    ELSE SumLayersOnly(SumLayers(size, Head(manifests).Layers), Tail(manifests))

SizeWithoutConfigs(m) == SumLayersOnly(m.ContainerImageDescriptor.Size, m.Manifests)

Size(m) == SumManifests(m.ContainerImageDescriptor.Size, m.Manifests)


-----------------------------------------------------------------------------
(* What the outside world can answer.                                      *)

\* Responses of the release endpoint: no response, or a body.
HTTPResponses ==
    {[ok |-> FALSE, body |-> JNull]} \cup
    {[ok |-> TRUE, body |-> b] : b \in
        {JObject("version" :> JString("2.1.0")),
         JObject("version" :> JString("")),
         JObject("version" :> JNumber(2)),
         JObject("version" :> JNull),
         JObject("message" :> JString("not found")),
         JObject(<<>>),
         JString("2.1.0"),
         JNull,
         JInvalid}}

\* Blob sizes that metadata.json names: of a layer, of an image config, of
\* the manifest list.
LayerSizes == {1, 2}
ConfigSizes == {4}
IndexSizes == {8}

Field(present, k, j) == IF present THEN k :> j ELSE <<>>

RawDescriptors(sizes) == {JObject("size" :> JNumber(n)) : n \in sizes}

\* Manifests that name exactly n blobs: the manifest itself and n - 1 layers.
RawManifests(n) ==
    {JObject(Field(c # JNull, "config", c) @@
             Field(Len(ls) > 0, "layers", JArray(ls))) :
        c \in RawDescriptors(ConfigSizes) \cup {JNull},
        ls \in {l \in SeqsUpTo(RawDescriptors(LayerSizes), n - 1) : Len(l) = n - 1}}

\* Manifest lists that name at most n blobs.
RECURSIVE RawManifestLists(_)
RawManifestLists(n) ==
    {<<>>} \cup UNION {{<<m>> \o rest : m \in RawManifests(k),
                                        rest \in RawManifestLists(n - k)}
                       : k \in 1..n}

\* Well-formed payloads of at most n blobs, over the given choices of the
\* image name (JNull: the key is absent).
RawMetadata(n, names) ==
    {JObject(Field(d # JNull, "containerimage.descriptor", d) @@
             Field(name # JNull, "image.name", name) @@
             Field(Len(ms) > 0, "manifests", JArray(ms)) @@
             ("containerimage.digest" :> JString("sha256:0a"))) :
        d \in RawDescriptors(IndexSizes) \cup {JNull},
        name \in names, ms \in RawManifestLists(n)}

\* Payloads encoding/json rejects for Metadata.
IllTypedMetadata ==
    {JString("oops"),
     JObject("manifests" :> JString("none")),
     JObject("containerimage.descriptor" :> JObject("size" :> JString("big")))}

RawDepotBuild == JObject(("buildID" :> JString("b7")) @@ ("projectID" :> JString("pj9")))

\* What metadata.json can hold after depot build; the file may be missing.
JMissing == [t |-> "missing", v |-> ""]

BuildFiles ==
    {JMissing, JInvalid, JNull} \cup IllTypedMetadata \cup
    {JObject(m.v @@ ("depot.build" :> RawDepotBuild)) :
        m \in RawMetadata(MaxBlobs, {JNull, JString("registry.depot.dev/pj9:b7")})}

\* What one target key of a bake metadata.json can hold within n blobs.
RawTargets(n) ==
    RawMetadata(n, {JString("app")})

Blobs(j) ==
    IF j.t = "object" /\ "manifests" \in DOMAIN j.v /\ j.v["manifests"].t = "array"
    THEN LET ms == j.v["manifests"].v
             layers(m) == IF "layers" \in DOMAIN m.v THEN Len(m.v["layers"].v) ELSE 0
             RECURSIVE Sum(_)
             Sum(i) == IF i = 0 THEN 0 ELSE 1 + layers(ms[i]) + Sum(i - 1)
         IN  Sum(Len(ms))
    ELSE 0

\* What metadata.json can hold after depot bake: targets web and api, each
\* absent, or some payload, and the reserved key depot.build.
BakeFiles ==
    LET free == {JMissing, JNull, JString("oops")}
        build == {JMissing, RawDepotBuild, JString("b7"),
                  JObject("buildID" :> JString("b7"))}
    IN  {JMissing, JInvalid, JNull, JArray(<<>>)} \cup
        UNION {{JObject(Field(b # JMissing, "depot.build", b) @@
                        Field(w # JMissing, "web", w) @@
                        Field(a # JMissing, "api", a)) :
                    b \in build,
                    a \in free \cup RawTargets(MaxBlobs - Blobs(w))}
               : w \in free \cup RawTargets(MaxBlobs)}

\* Files depot can leave in /mnt/sboms.
SBOMFiles ==
    {[name |-> "linux_amd64.spdx.json", contents |-> "{spdxVersion:SPDX-2.3,name:amd64}", spdx |-> TRUE],
     [name |-> "linux_arm64.spdx.json", contents |-> "{spdxVersion:SPDX-2.3,name:arm64}", spdx |-> TRUE],
     [name |-> "sbom.log", contents |-> "scanning layers", spdx |-> FALSE]}

\* A *Directory is what the engine holds at its path: nothing, or entries.
MissingDirectory == [exists |-> FALSE, entries |-> <<>>]

Directories ==
    {MissingDirectory} \cup
    {[exists |-> TRUE, entries |-> e] :
        e \in {s \in SeqsUpTo(SBOMFiles, MaxSBOMs) :
                  \A i, k \in DOMAIN s : s[i] = s[k] => i = k}}


-----------------------------------------------------------------------------
(* Version resolution.                                                     *)

ErrNetwork == "Get https://dl.depot.dev/cli/release: connection refused"

\* func latestDepotVersion() (string, error), given what the endpoint answers
latestDepotVersion(resp) ==
    IF ~resp.ok THEN [v |-> "", err |-> ErrNetwork]
    ELSE CASE resp.body.t = "invalid" -> [v |-> "", err |-> ErrSyntax]
           [] resp.body.t = "null" -> [v |-> "", err |-> NoErr]
           [] resp.body.t = "object" ->
                 LET version == UnmarshalString(Member(resp.body, "version"))
                 IN  [v |-> IF version.err = NoErr THEN version.v ELSE "",
                      err |-> version.err]
           [] OTHER -> [v |-> "", err |-> ErrType]

\* The version check without its condition, so that every call asks the
\* endpoint: a faulty variant that C8_VersionLookups has to reject.
AlwaysLookup(depotVersion) == TRUE

\* if depotVersion == "" { depotVersion, err = latestDepotVersion() ... }
NeedsLookup(depotVersion) == depotVersion = ""

-----------------------------------------------------------------------------
(* Bake metadata.                                                          *)

ZeroBakeMetadata == [DepotBuild |-> ZeroDepotBuild, Targets |-> <<>>]

\* The loop of UnmarshalJSON leaving at the reserved key once it is decoded
\* (`return nil` where the code falls through to the next key), so that the
\* keys range visits after it are never decoded: a faulty variant that
\* C20_BakeDecodeFails has to reject.
RECURSIVE RangeObjStopsAtReserved(_, _, _)
RangeObjStopsAtReserved(m, obj, order) ==
    IF Len(order) = 0 THEN [v |-> m, err |-> NoErr]
    ELSE LET k == Head(order)
         IN  IF k = "depot.build"
             THEN LET depotBuild == UnmarshalDepotBuild(obj["depot.build"])
                  IN  [v |-> IF depotBuild.err # NoErr THEN m
                             ELSE [m EXCEPT !.DepotBuild = depotBuild.v],
                       err |-> depotBuild.err]
             ELSE LET md == UnmarshalMetadata(obj[k])
                  IN  IF md.err # NoErr
                      THEN [v |-> m, err |-> md.err]
                      ELSE RangeObjStopsAtReserved(
                               [m EXCEPT !.Targets = (k :> md.v) @@ @],
                               obj, Tail(order))

\* for k, v := range obj {...} of UnmarshalJSON, visiting the keys in `order`
RECURSIVE RangeObj(_, _, _)
RangeObj(m, obj, order) ==
    IF Len(order) = 0 THEN [v |-> m, err |-> NoErr]
    ELSE LET k == Head(order)
         IN  IF k = "depot.build"
             THEN LET depotBuild == UnmarshalDepotBuild(obj["depot.build"])
                  IN  IF depotBuild.err # NoErr
                      THEN [v |-> m, err |-> depotBuild.err]
                      ELSE RangeObj([m EXCEPT !.DepotBuild = depotBuild.v],
                                    obj, Tail(order))
             ELSE LET md == UnmarshalMetadata(obj[k])
                  IN  IF md.err # NoErr
                      THEN [v |-> m, err |-> md.err]
                      ELSE RangeObj([m EXCEPT !.Targets = (k :> md.v) @@ @],
                                    obj, Tail(order))

\* The orders in which range can visit the keys of what buf decodes to.
KeyOrders(j) == IF j.t = "object" THEN Orders(DOMAIN j.v) ELSE {<<>>}

\* UnmarshalJSON without the `if k == "depot.build" {...; continue}` skip, so
\* that the reserved key also lands among the targets: a faulty variant that
\* C2_BakeDecode has to reject.
UnmarshalJSONKeepsReserved(j, order) ==
    IF j.t = "object"
    THEN LET m == RangeObj(ZeroBakeMetadata, j.v, order)
         IN  IF m.err = NoErr /\ "depot.build" \in DOMAIN j.v
             THEN [m EXCEPT !.v.Targets = ("depot.build" :> ZeroMetadata) @@ @]
             ELSE m
    ELSE [v |-> ZeroBakeMetadata, err |-> ErrTypeMap]

\* func (m *BakeMetadata) UnmarshalJSON(d []byte) error
UnmarshalJSON(j, order) ==
    CASE j.t = "invalid" -> [v |-> ZeroBakeMetadata, err |-> ErrSyntax]
      [] j.t = "null" -> [v |-> ZeroBakeMetadata, err |-> NoErr]
      [] j.t = "object" -> RangeObj(ZeroBakeMetadata, j.v, order)
      [] OTHER -> [v |-> ZeroBakeMetadata, err |-> ErrTypeMap]

-----------------------------------------------------------------------------
(* Artifacts.                                                              *)

BuildArtifact(token, project, target, imageName, size, sbomDir) ==
    [kind |-> "BuildArtifact", Token |-> token, Project |-> project,
     Target |-> target, SBOMDir |-> sbomDir, ImageName |-> imageName,
     Size |-> size]

\* The BuildArtifact of part_001, which holds the metadata itself.
MetadataArtifact(token, project, metadata, sbomDir) ==
    [kind |-> "BuildArtifact", Token |-> token, Project |-> project,
     Metadata |-> metadata, SBOMDir |-> sbomDir]

Result(val, err) == [val |-> val, err |-> err, panic |-> FALSE]
Panic == [val |-> Nil, err |-> NoErr, panic |-> TRUE]
NoResult == Result(Nil, NoErr)

\* What a method call on a returned value gave: the method, its argument and
\* its result.
Called(method, arg, result) ==
    [method |-> method, arg |-> arg, val |-> result.val, err |-> result.err,
     panic |-> result.panic]

NoCall == Called("", "", NoResult)

\* The loop of Depot.Bake with `ImageName: metadata.ImageName`, the name the
\* target's own metadata carries: a faulty variant that C23_BakeArtifacts has
\* to reject.
BakeArtifactsOwnNames(bakeMetadata, token, project, order) ==
    [i \in DOMAIN order |->
        BuildArtifact(token, project, order[i],
                      bakeMetadata.Targets[order[i]].ImageName,
                      Size(bakeMetadata.Targets[order[i]]), Nil)]

\* for target, metadata := range bakeMetadata.Targets {...} of Depot.Bake
BakeArtifacts(bakeMetadata, token, project, order) ==
    [i \in DOMAIN order |->
        LET target == order[i]
            imageName == "registry.depot.dev/" \o bakeMetadata.DepotBuild.ProjectID
                         \o ":" \o bakeMetadata.DepotBuild.BuildID \o "-" \o target
        IN  BuildArtifact(token, project, target, imageName,
                          Size(bakeMetadata.Targets[target]), Nil)]

\* Get with an error that names no target: a faulty variant that
\* C3_GetListsTargets has to reject.
GetNamesNoTarget(a, target) ==
    IF \E i \in DOMAIN a.Artifacts : a.Artifacts[i].Target = target
    THEN Result(a.Artifacts[CHOOSE i \in DOMAIN a.Artifacts :
                               a.Artifacts[i].Target = target],
                NoErr)
    ELSE Result(Nil, "no such artifact target " \o target)

\* func (a *Artifacts) Get(target string) (*BuildArtifact, error)
Get(a, target) ==
    IF \E i \in DOMAIN a.Artifacts : a.Artifacts[i].Target = target
    THEN Result(a.Artifacts[CHOOSE i \in DOMAIN a.Artifacts :
                               /\ a.Artifacts[i].Target = target
                               /\ \A k \in 1..(i - 1) : a.Artifacts[k].Target # target],
                NoErr)
    ELSE Result(Nil, "no such artifact target " \o target \o ". valid targets: "
                     \o Join([i \in DOMAIN a.Artifacts |-> a.Artifacts[i].Target], ", "))

\* func (b *BuildArtifact) Container() *Container
Container(b) ==
    Result([kind |-> "Container",
            ops |-> <<[f |-> "WithRegistryAuth", a |-> "registry.depot.dev",
                       b |-> <<"x-token", b.Token>>],
                      From(IF "ImageName" \in DOMAIN b THEN b.ImageName
                           ELSE b.Metadata.ImageName)>>],
           NoErr)

\* func (b *BuildArtifact) ImageBytes() int64
ImageBytes(b) ==
    Result([kind |-> "int64",
            n |-> IF "Size" \in DOMAIN b THEN b.Size ELSE Size(b.Metadata)],
           NoErr)

ErrNoSBOM == "sbom not generated; use --sbom"
ErrNoSBOMs == "no sboms found"
ErrNoDirectory == "lstat /mnt/sboms: no such file or directory"
ErrNotSPDX == "failed to parse SPDX identifier"

\* SBOM with `len(sboms) <= 1` for `len(sboms) == 0`: a faulty variant that
\* C4_SBOMOfOneFile has to reject.
SBOMNeedsTwo(b) ==
    IF b.SBOMDir = Nil THEN Result(Nil, ErrNoSBOM)
    ELSE IF ~b.SBOMDir.exists THEN Result(Nil, ErrNoDirectory)
    ELSE LET sboms == b.SBOMDir.entries
         IN  IF Len(sboms) <= 1 THEN Result(Nil, ErrNoSBOMs)
             ELSE Result([kind |-> "File", file |-> sboms[1]], NoErr)

\* func (b *BuildArtifact) SBOM(ctx) (*File, error) of main.go
SBOM(b) ==
    IF b.SBOMDir = Nil THEN Result(Nil, ErrNoSBOM)
    ELSE IF ~b.SBOMDir.exists THEN Result(Nil, ErrNoDirectory)
    ELSE LET sboms == b.SBOMDir.entries
         IN  IF Len(sboms) = 0 THEN Result(Nil, ErrNoSBOMs)
             ELSE Result([kind |-> "File", file |-> sboms[1]], NoErr)

\* func (b *BuildArtifact) SBOMs(ctx) (string, error) of part_001
SBOMs(b) ==
    IF b.SBOMDir = Nil THEN Result(Nil, ErrNoSBOM)
    ELSE IF ~b.SBOMDir.exists THEN Result(Nil, ErrNoDirectory)
    ELSE LET paths == b.SBOMDir.entries
         IN  IF Len(paths) = 0 THEN Panic
             ELSE IF ~paths[1].spdx THEN Result(Nil, ErrNotSPDX)
             ELSE Result([kind |-> "string", s |-> paths[1].contents], NoErr)

\* SBOM handing its directory over to the caller (`b.SBOMDir = nil` before the
\* return), so that the artifact is no longer what Build returned: a faulty
\* variant that C21_ArtifactNotMutated has to reject.
ReceiverGivesUpSBOMDir(b, method) ==
    IF method \in {"SBOM", "SBOMs"} THEN [b EXCEPT !.SBOMDir = Nil] ELSE b

\* *b after a call of one of its methods: Container, ImageBytes, SBOM and
\* SBOMs read the fields of their receiver and assign to none of them.
Receiver(b, method) == b


-----------------------------------------------------------------------------
(* The state machine.                                                      *)

NoRun == [exit |-> -1, metadata |-> [t |-> "missing", v |-> ""], sboms |-> MissingDirectory]
NoLocals == [token |-> "", project |-> "", sbom |-> FALSE, exec |-> NoRun,
             metadata |-> ZeroBuildMetadata, bakeMetadata |-> ZeroBakeMetadata]

ErrExec == "process \"/usr/bin/depot\" did not complete successfully: exit code: 1"
ErrNoFile == "metadata.json: no such file or directory"

ContainerOps == {"bake", "buildHost", "bakeHost"}
ArtifactOps == {"Build", "Bake", "buildSBOMs"}

Init ==
    /\ pc = "idle"
    /\ op = ""
    /\ req = ZeroRequest
    /\ args = <<>>
    /\ container = <<>>
    /\ live = NoLocals
    /\ requests = 0
    /\ ret = NoResult
    /\ artifact = Nil
    /\ out = NoCall

\* The container of entry point o once the version is known, WithExec applied.
Exec(o, version, r, a) ==
    CASE o = "Build" -> BuildExec(version, r, a)
      [] o = "Bake" -> BakeExec(version, r, a)
      [] o = "bake" -> bakeExec(version, r, a)
      [] o = "buildHost" -> buildHostExec(version, r, a)
      [] o = "bakeHost" -> bakeHostExec(version, r, a)
      [] o = "buildSBOMs" -> buildSBOMsExec(version, r, a)

\* An entry point that configures its container before the version is
\* resolved: a faulty variant that C6_NoContainerOnLookupError has to reject.
CallConfiguresFirst(o, r, a) ==
    /\ op' = o
    /\ req' = r
    /\ args' = a
    /\ pc' = IF NeedsLookup(r.depotVersion) THEN "resolve" ELSE "exec"
    /\ container' = Exec(o, r.depotVersion, r, a)
    /\ UNCHANGED <<live, requests, ret, artifact, out>>

\* An entry point that appends to an argument slice shared by all calls
\* instead of a slice of its own: a faulty variant that C18_Deterministic has
\* to reject.
CallSharesArgs(o, r, a) ==
    /\ op' = o
    /\ req' = r
    /\ args' = args \o a
    /\ IF NeedsLookup(r.depotVersion)
       THEN /\ pc' = "resolve"
            /\ container' = <<>>
       ELSE /\ pc' = "exec"
            /\ container' = Exec(o, r.depotVersion, r, args \o a)
    /\ UNCHANGED <<live, requests, ret, artifact, out>>

\* An entry point is called: it builds args and, unless it has to ask for
\* the version first, the container.
Call(o, r, a) ==
    /\ op' = o
    /\ req' = r
    /\ args' = a
    /\ IF NeedsLookup(r.depotVersion)
       THEN /\ pc' = "resolve"
            /\ container' = <<>>
       ELSE /\ pc' = "exec"
            /\ container' = Exec(o, r.depotVersion, r, a)
    /\ UNCHANGED <<live, requests, ret, artifact, out>>

Build ==
    /\ pc = "idle"
    /\ \E r \in BuildRequests : Call("Build", r, BuildArgs(r))
Bake ==
    /\ pc = "idle"
    /\ \E r \in BakeRequests : Call("Bake", r, BakeArgs(r))
bake ==
    /\ pc = "idle"
    /\ \E r \in bakeRequests : Call("bake", r, bakeArgs(r))
buildHost ==
    /\ pc = "idle"
    /\ \E r \in buildHostRequests : Call("buildHost", r, buildHostArgs(r))
bakeHost ==
    /\ pc = "idle"
    /\ \E r \in bakeHostRequests : Call("bakeHost", r, bakeHostArgs(r))
buildSBOMs ==
    /\ pc = "idle"
    /\ \E r \in buildSBOMsRequests : Call("buildSBOMs", r, buildSBOMsArgs(r))

\* The call returns (val, err); its locals go out of scope.
Return(val, err) ==
    /\ pc' = "returned"
    /\ ret' = Result(val, err)
    /\ artifact' = IF val.kind = "BuildArtifact" THEN val ELSE Nil
    /\ req' = ZeroRequest
    /\ args' = <<>>
    /\ container' = <<>>
    /\ live' = NoLocals

\* The release endpoint answers the one request of latestDepotVersion.
ResolveVersion ==
    /\ pc = "resolve"
    /\ requests' = requests + 1
    /\ \E resp \in HTTPResponses :
          LET version == latestDepotVersion(resp)
          IN  IF version.err # NoErr
              THEN /\ Return(Nil, version.err)
                   /\ UNCHANGED <<op, out>>
              ELSE /\ pc' = "exec"
                   /\ container' = Exec(op, version.v, req, args)
                   /\ UNCHANGED <<op, req, args, live, ret, artifact, out>>

\* return container.WithExec(...), nil
ReturnContainer ==
    /\ pc = "exec"
    /\ op \in ContainerOps
    /\ Return([kind |-> "Container", ops |-> container], NoErr)
    /\ UNCHANGED <<op, requests, out>>

\* metadataFile.Contents(ctx): the engine is asked to run the container.
Contents ==
    /\ pc = "exec"
    /\ op \in ArtifactOps
    /\ pc' = "running"
    /\ live' = [NoLocals EXCEPT !.token = req.token, !.project = req.project,
                                !.sbom = req.sbom]
    /\ req' = ZeroRequest
    /\ args' = <<>>
    /\ container' = <<>>
    /\ UNCHANGED <<op, requests, ret, artifact, out>>

\* What a run can leave: a failed run leaves nothing; an SBOM directory
\* only comes with --sbom-dir.
Runs(files, sbom) ==
    {[exit |-> 1, metadata |-> JMissing, sboms |-> MissingDirectory]} \cup
    {[exit |-> 0, metadata |-> m, sboms |-> d] :
        m \in files, d \in IF sbom THEN Directories ELSE {MissingDirectory}}

\* buf, err := metadataFile.Contents(ctx)
ContentsErr(run) ==
    IF run.exit # 0 THEN ErrExec
    ELSE IF run.metadata = JMissing THEN ErrNoFile
    ELSE NoErr

\* The engine has run the container; Build and build read and decode
\* metadata.json.
BuildReply ==
    /\ pc = "running"
    /\ op \in {"Build", "buildSBOMs"}
    /\ \E run \in Runs(BuildFiles, live.sbom) :
          IF ContentsErr(run) # NoErr
          THEN Return(Nil, ContentsErr(run))
          ELSE LET metadata == UnmarshalBuildMetadata(run.metadata)
               IN  IF metadata.err # NoErr
                   THEN Return(Nil, metadata.err)
                   ELSE /\ pc' = "decoded"
                        /\ live' = [live EXCEPT !.exec = run, !.metadata = metadata.v]
                        /\ UNCHANGED <<req, args, container, ret, artifact>>
    /\ UNCHANGED <<op, requests, out>>

\* Build with `artifact.SBOMDir = exec.Directory("/mnt/sboms")` outside its
\* `if sbom {...}`: a faulty variant that C24_SBOMDirOnlyFromBuild has to
\* reject.
BuildResultAlwaysDir(locals) ==
    BuildArtifact(locals.token, locals.project, "", locals.metadata.ImageName,
                  Size(locals.metadata), locals.exec.sboms)

\* artifact := &BuildArtifact{...} ... return artifact, nil of Depot.Build
BuildResult(locals) ==
    BuildArtifact(locals.token, locals.project, "", locals.metadata.ImageName,
                  Size(locals.metadata),
                  IF locals.sbom THEN locals.exec.sboms ELSE Nil)

\* artifact := &BuildArtifact{...} ... return artifact, nil of build, part_001
buildSBOMsResult(locals) ==
    MetadataArtifact(locals.token, locals.project, locals.metadata,
                     IF locals.sbom THEN locals.exec.sboms ELSE Nil)

BuildReturn ==
    /\ pc = "decoded"
    /\ op = "Build"
    /\ Return(BuildResult(live), NoErr)
    /\ UNCHANGED <<op, requests, out>>

buildSBOMsReturn ==
    /\ pc = "decoded"
    /\ op = "buildSBOMs"
    /\ Return(buildSBOMsResult(live), NoErr)
    /\ UNCHANGED <<op, requests, out>>

\* Depot.Bake from metadataFile.Contents(ctx) through json.Unmarshal
BakeReply ==
    /\ pc = "running"
    /\ op = "Bake"
    /\ \E run \in Runs(BakeFiles, FALSE) :
          IF ContentsErr(run) # NoErr
          THEN Return(Nil, ContentsErr(run))
          ELSE \E order \in KeyOrders(run.metadata) :
                  LET bakeMetadata == UnmarshalJSON(run.metadata, order)
                  IN  IF bakeMetadata.err # NoErr
                      THEN Return(Nil, bakeMetadata.err)
                      ELSE /\ pc' = "decoded"
                           /\ live' = [live EXCEPT !.exec = run,
                                                   !.bakeMetadata = bakeMetadata.v]
                           /\ UNCHANGED <<req, args, container, ret, artifact>>
    /\ UNCHANGED <<op, requests, out>>

\* Depot.Bake from artifacts := make(...) to its return
BakeReturn ==
    /\ pc = "decoded"
    /\ op = "Bake"
    /\ \E order \in Orders(DOMAIN live.bakeMetadata.Targets) :
          Return([kind |-> "Artifacts",
                  Artifacts |-> BakeArtifacts(live.bakeMetadata, live.token,
                                              live.project, order)],
                 NoErr)
    /\ UNCHANGED <<op, requests, out>>

\* The caller uses what the call returned.
TargetNames == {"web", "api", "db"}

CallGet ==
    /\ pc = "returned"
    /\ ret.val.kind = "Artifacts"
    /\ \E target \in TargetNames :
          /\ out' = Called("Get", target, Get(ret.val, target))
          /\ artifact' = IF out'.err = NoErr THEN out'.val ELSE artifact
    /\ UNCHANGED <<pc, op, req, args, container, live, requests, ret>>

CallContainer ==
    /\ pc = "returned"
    /\ artifact # Nil
    /\ out' = Called("Container", "", Container(artifact))
    /\ artifact' = Receiver(artifact, "Container")
    /\ UNCHANGED <<pc, op, req, args, container, live, requests, ret>>

CallImageBytes ==
    /\ pc = "returned"
    /\ artifact # Nil
    /\ out' = Called("ImageBytes", "", ImageBytes(artifact))
    /\ artifact' = Receiver(artifact, "ImageBytes")
    /\ UNCHANGED <<pc, op, req, args, container, live, requests, ret>>

CallSBOM ==
    /\ pc = "returned"
    /\ artifact # Nil
    /\ op \in {"Build", "Bake"}
    /\ out' = Called("SBOM", "", SBOM(artifact))
    /\ artifact' = Receiver(artifact, "SBOM")
    /\ UNCHANGED <<pc, op, req, args, container, live, requests, ret>>

CallSBOMs ==
    /\ pc = "returned"
    /\ artifact # Nil
    /\ op = "buildSBOMs"
    /\ out' = Called("SBOMs", "", SBOMs(artifact))
    /\ artifact' = Receiver(artifact, "SBOMs")
    /\ UNCHANGED <<pc, op, req, args, container, live, requests, ret>>

\* The caller is done with the result; the module is ready for the next call.
Release ==
    /\ pc = "returned"
    /\ pc' = "idle"
    /\ op' = ""
    /\ ret' = NoResult
    /\ artifact' = Nil
    /\ out' = NoCall
    /\ requests' = 0
    /\ UNCHANGED <<req, args, container, live>>

Next ==
    \/ Build
    \/ Bake
    \/ bake
    \/ buildHost
    \/ bakeHost
    \/ buildSBOMs
    \/ ResolveVersion
    \/ ReturnContainer
    \/ Contents
    \/ BuildReply
    \/ BuildReturn
    \/ buildSBOMsReturn
    \/ BakeReply
    \/ BakeReturn
    \/ CallGet
    \/ CallContainer
    \/ CallImageBytes
    \/ CallSBOM
    \/ CallSBOMs
    \/ Release

Spec == Init /\ [][Next]_vars

-----------------------------------------------------------------------------
(* Two runs of the builder on one request.  The first run goes up to      *)
(* WithExec, where what it built is kept in ret; then the same entry point *)
(* is called again with the same request.                                  *)

\* The argument vector entry point o builds for request r.
ArgsOf(o, r) ==
    CASE o = "Build" -> BuildArgs(r)
      [] o = "Bake" -> BakeArgs(r)
      [] o = "bake" -> bakeArgs(r)
      [] o = "buildHost" -> buildHostArgs(r)
      [] o = "bakeHost" -> bakeHostArgs(r)
      [] o = "buildSBOMs" -> buildSBOMsArgs(r)

\* What a run has built when it reaches WithExec.
Invocation(o, r, a, c) ==
    [kind |-> "Invocation", op |-> o, req |-> r, args |-> a, container |-> c]

Keep ==
    /\ pc = "exec"
    /\ ret = NoResult
    /\ pc' = "kept"
    /\ ret' = Result(Invocation(op, req, args, container), NoErr)
    /\ UNCHANGED <<op, req, args, container, live, requests, artifact, out>>

Rerun ==
    /\ pc = "kept"
    /\ Call(ret.val.op, ret.val.req, ArgsOf(ret.val.op, ret.val.req))

NextTwoRuns ==
    \/ Build
    \/ Bake
    \/ bake
    \/ buildHost
    \/ bakeHost
    \/ buildSBOMs
    \/ ResolveVersion
    \/ Keep
    \/ Rerun

SpecTwoRuns == Init /\ [][NextTwoRuns]_vars

-----------------------------------------------------------------------------
(* Properties.                                                             *)

\* The sum of f over the finite set S.
RECURSIVE SumOver(_, _)
SumOver(S, f) ==
    IF S = {} THEN 0
    ELSE LET x == CHOOSE x \in S : TRUE
         IN  f[x] + SumOver(S \ {x}, f)

\* descriptor.size plus, over the manifests, config.size plus the layer sizes
ExpectedSize(m) ==
    m.ContainerImageDescriptor.Size +
    SumOver(DOMAIN m.Manifests,
            [i \in DOMAIN m.Manifests |->
                m.Manifests[i].Config.Size +
                SumOver(DOMAIN m.Manifests[i].Layers,
                        [k \in DOMAIN m.Manifests[i].Layers |->
                            m.Manifests[i].Layers[k].Size])])

\* C1: the size an artifact carries is descriptor.size plus, for each of the
\* N manifests of the decoded metadata, config.size plus the sizes of its
\* layers; with no manifest it is descriptor.size.  Build, Bake (per target)
\* and ImageBytes of build all give this sum of the metadata they decoded.
C1_SizeIsSum ==
    [][/\ (pc = "decoded" /\ op = "Build") =>
             /\ ret'.val.Size = ExpectedSize(live.metadata)
             /\ (live.metadata.Manifests = <<>> =>
                    ret'.val.Size = live.metadata.ContainerImageDescriptor.Size)
       /\ (pc = "decoded" /\ op = "Bake") =>
             \A i \in DOMAIN ret'.val.Artifacts :
                LET a == ret'.val.Artifacts[i]
                IN  a.Size = ExpectedSize(live.bakeMetadata.Targets[a.Target])
       /\ (pc = "decoded" /\ op = "buildSBOMs") =>
             ret'.val.Metadata = live.metadata
       /\ (out'.method = "ImageBytes" /\ op' = "buildSBOMs") =>
             /\ out'.val.n = ExpectedSize(artifact'.Metadata)
             /\ (artifact'.Metadata.Manifests = <<>> =>
                    out'.val.n = artifact'.Metadata.ContainerImageDescriptor.Size)
       /\ (out'.method = "ImageBytes" /\ op' # "buildSBOMs") =>
             out'.val.n = artifact'.Size]_vars

\* ImageBytes of a build whose metadata names two manifests, both with a
\* config, under a manifest list of size 8.
C1_Witness ==
    /\ pc = "returned"
    /\ op = "buildSBOMs"
    /\ out.method = "ImageBytes"
    /\ Len(artifact.Metadata.Manifests) = 2
    /\ out.val.n = 16

\* The string under key k of a decoded JSON object, "" when there is none.
StringAt(o, k) ==
    IF o.t = "object" /\ k \in DOMAIN o.v /\ o.v[k].t = "string"
    THEN o.v[k].v ELSE ""

\* C2: what Bake decodes from a metadata.json object has as target names
\* exactly the keys of the object other than depot.build, each with the
\* metadata decoded from its value, and has its build info from the value of
\* depot.build; this holds whatever the order the keys were visited in.
C2_BakeDecode ==
    (pc = "decoded" /\ op = "Bake" /\ live.exec.metadata.t = "object") =>
        LET raw == live.exec.metadata.v
            m == live.bakeMetadata
        IN  /\ DOMAIN m.Targets = DOMAIN raw \ {"depot.build"}
            /\ \A k \in DOMAIN raw \ {"depot.build"} :
                  m.Targets[k] = UnmarshalMetadata(raw[k]).v
            /\ m.DepotBuild =
                  IF "depot.build" \in DOMAIN raw
                  THEN [BuildID |-> StringAt(raw["depot.build"], "buildID"),
                        ProjectID |-> StringAt(raw["depot.build"], "projectID")]
                  ELSE ZeroDepotBuild

\* A decoded bake of the targets web and api next to depot.build.
C2_Witness ==
    /\ pc = "decoded"
    /\ op = "Bake"
    /\ live.exec.metadata.t = "object"
    /\ DOMAIN live.exec.metadata.v = {"depot.build", "web", "api"}
    /\ DOMAIN live.bakeMetadata.Targets = {"web", "api"}
    /\ live.bakeMetadata.DepotBuild = [BuildID |-> "b7", ProjectID |-> "pj9"]

\* The target names an artifact set holds.
TargetsOf(a) == {a.Artifacts[i].Target : i \in DOMAIN a.Artifacts}

\* C3 as the specification states it: Get of a target that an artifact set
\* for {web, api} lacks fails with a message that lists "web, api".
C3_ListsWebApi ==
    (/\ pc = "returned"
     /\ ret.val.kind = "Artifacts"
     /\ TargetsOf(ret.val) = {"web", "api"}
     /\ out.method = "Get"
     /\ out.arg = "db") =>
        /\ out.val = Nil
        /\ out.err = "no such artifact target db. valid targets: web, api"

\* C3: Get of a target the set holds returns the artifact of that target; Get
\* of any other target returns no artifact and an error whose message names
\* the target asked for and lists every target of the set once, separated by
\* ", ", in the order the set holds them, which for {web, api} is "web, api"
\* or "api, web".
C3_GetListsTargets ==
    (pc = "returned" /\ ret.val.kind = "Artifacts" /\ out.method = "Get") =>
        IF out.arg \in TargetsOf(ret.val)
        THEN /\ out.err = NoErr
             /\ out.val \in Range(ret.val.Artifacts)
             /\ out.val.Target = out.arg
        ELSE /\ out.val = Nil
             /\ out.err = "no such artifact target " \o out.arg
                          \o ". valid targets: "
                          \o Join([i \in DOMAIN ret.val.Artifacts |->
                                      ret.val.Artifacts[i].Target], ", ")
             /\ (TargetsOf(ret.val) = {"web", "api"} /\ out.arg = "db") =>
                    out.err \in
                       {"no such artifact target db. valid targets: web, api",
                        "no such artifact target db. valid targets: api, web"}

\* Get("db") on an artifact set that holds api before web.
C3_Witness ==
    /\ pc = "returned"
    /\ ret.val.kind = "Artifacts"
    /\ out.method = "Get"
    /\ out.arg = "db"
    /\ out.err = "no such artifact target db. valid targets: api, web"

\* C4 as the specification states it: SBOM retrieval fails without a file
\* when the artifact has no SBOM directory, and returns the file when the
\* directory holds one file.
C4_ReturnsTheOneFile ==
    (pc = "returned" /\ out.method \in {"SBOM", "SBOMs"}) =>
        LET dir == artifact.SBOMDir
        IN  /\ dir = Nil => (out.val = Nil /\ out.err # NoErr)
            /\ (dir # Nil /\ dir.exists /\ Len(dir.entries) = 1) =>
                  /\ out.err = NoErr
                  /\ IF out.method = "SBOM"
                     THEN out.val = [kind |-> "File", file |-> dir.entries[1]]
                     ELSE out.val = [kind |-> "string", s |-> dir.entries[1].contents]

\* C4: an artifact of a build made without the sbom option has no SBOM
\* directory, and SBOM retrieval on an artifact without SBOM directory
\* returns no file and the error "sbom not generated; use --sbom".  When the
\* directory holds one file, SBOM returns that file, and SBOMs returns the
\* contents of that file unchanged if they parse as an SPDX JSON document
\* and returns no contents and the parse error if they do not.
C4_SBOMOfOneFile ==
    [][/\ (pc = "decoded" /\ op \in {"Build", "buildSBOMs"} /\ ~live.sbom) =>
             ret'.val.SBOMDir = Nil
       /\ (pc' = "returned" /\ out'.method \in {"SBOM", "SBOMs"}) =>
             LET dir == artifact'.SBOMDir
             IN  /\ dir = Nil =>
                       (out'.val = Nil /\ out'.err = ErrNoSBOM /\ ~out'.panic)
                 /\ (dir # Nil /\ dir.exists /\ Len(dir.entries) = 1) =>
                       IF out'.method = "SBOM"
                       THEN /\ out'.err = NoErr
                            /\ out'.val = [kind |-> "File", file |-> dir.entries[1]]
                       ELSE IF dir.entries[1].spdx
                       THEN /\ out'.err = NoErr
                            /\ out'.val = [kind |-> "string",
                                           s |-> dir.entries[1].contents]
                       ELSE /\ out'.val = Nil
                            /\ out'.err = ErrNotSPDX]_vars

\* SBOMs on a directory whose one file is not an SPDX document.
C4_Witness ==
    /\ pc = "returned"
    /\ out.method = "SBOMs"
    /\ artifact.SBOMDir # Nil
    /\ artifact.SBOMDir.exists
    /\ Len(artifact.SBOMDir.entries) = 1
    /\ ~artifact.SBOMDir.entries[1].spdx
    /\ out.err = ErrNotSPDX

\* C5 as the specification states it: SBOM retrieval on an SBOM directory
\* that exists and has no entry returns an error and no file to the caller,
\* without crashing; on a directory of several entries what it returns is
\* the first entry listed.
C5_EmptyDirectoryIsAnError ==
    (/\ pc = "returned"
     /\ out.method \in {"SBOM", "SBOMs"}
     /\ artifact.SBOMDir # Nil
     /\ artifact.SBOMDir.exists) =>
        LET entries == artifact.SBOMDir.entries
        IN  /\ Len(entries) = 0 =>
                  (~out.panic /\ out.err # NoErr /\ out.val = Nil)
            /\ (Len(entries) > 1 /\ ~out.panic /\ out.err = NoErr) =>
                  IF out.method = "SBOM"
                  THEN out.val = [kind |-> "File", file |-> entries[1]]
                  ELSE out.val = [kind |-> "string", s |-> entries[1].contents]

\* The errors latestDepotVersion can return.
LookupErrors ==
    {latestDepotVersion(resp).err : resp \in HTTPResponses} \ {NoErr}

\* C6: while the version is being resolved no container is configured; when
\* the lookup fails the call returns nil and the error of the lookup, and
\* still no container is configured and no command marked for execution.
C6_NoContainerOnLookupError ==
    [][pc = "resolve" =>
          /\ container = <<>>
          /\ pc' \in {"exec", "returned"}
          /\ pc' = "returned" =>
                /\ ret'.val = Nil
                /\ ret'.err \in LookupErrors
                /\ artifact' = Nil
                /\ container' = <<>>
          /\ pc' = "exec" => container' # <<>>]_vars

\* Build returned the error of a lookup that could not be completed.
C6_Witness ==
    /\ pc = "returned"
    /\ op = "Build"
    /\ requests = 1
    /\ ret.val = Nil
    /\ ret.err = ErrNetwork
    /\ container = <<>>

\* C7 as the specification states it: a lookup that returns without error
\* returns a version that is not empty, so that the image of a call that
\* asked the endpoint never has an empty tag.
C7_LookupNeverEmpty ==
    (pc = "exec" /\ requests = 1) =>
        Head(container) \notin {From("public.ecr.aws/depot/cli:"),
                                From("ghcr.io/depot/cli:")}

\* The images of the CLI at tag version.
DepotImages(version) ==
    {From("public.ecr.aws/depot/cli:" \o version),
     From("ghcr.io/depot/cli:" \o version)}

\* C8: a call with a non-empty version goes on to run the image tagged with
\* that very string and sends no request to the release endpoint; a call
\* with an empty version sends one request, whatever the calls before it,
\* and no step after the answer sends another.
C8_VersionLookups ==
    [][/\ (pc = "idle" /\ pc' # "idle") =>
             /\ requests' = 0
             /\ IF req'.depotVersion # ""
                THEN /\ pc' = "exec"
                     /\ Head(container') \in DepotImages(req'.depotVersion)
                ELSE pc' = "resolve"
       /\ pc = "resolve" =>
             /\ requests' = 1
             /\ pc' \in {"exec", "returned"}
       /\ (pc \in {"exec", "running", "decoded"} \/
           (pc = "returned" /\ pc' = "returned")) =>
             requests' = requests]_vars

\* A call without version that asked the endpoint once and runs the image of
\* the version it was told.
C8_Witness ==
    /\ pc = "exec"
    /\ req.depotVersion = ""
    /\ requests = 1
    /\ Head(container) \in DepotImages("2.1.0")

\* The container a call has configured or returned, <<>> when there is none.
Configured ==
    IF pc = "exec" THEN container
    ELSE IF pc = "returned" /\ ret.val.kind = "Container" THEN ret.val.ops
    ELSE <<>>

Has(c, o) == \E i \in 1..(Len(c) - 1) : c[i] = o

\* C9: a call that is about to run its command has a container whose last
\* step is WithExec, with the mounted directory, the project id, the token
\* secret and the working directory, and the socket and DOCKER_HOST where
\* the docker host asks for them, all applied before it; nothing follows
\* WithExec, in the container being run as in the container returned.
C9_WiringBeforeExec ==
    /\ pc = "exec" => container # <<>>
    /\ Configured # <<>> =>
          LET c == Configured
          IN  /\ c[Len(c)].f = "WithExec"
              /\ \A i \in 1..(Len(c) - 1) : c[i].f # "WithExec"
              /\ \E i \in 1..(Len(c) - 1) :
                    c[i].f = "WithMountedDirectory" /\ c[i].a = "/mnt"
              /\ \E i \in 1..(Len(c) - 1) :
                    c[i].f = "WithEnvVariable" /\ c[i].a = "DEPOT_PROJECT_ID"
              /\ \E i \in 1..(Len(c) - 1) :
                    c[i].f = "WithSecretVariable" /\ c[i].a = "DEPOT_TOKEN"
              /\ Has(c, WithWorkdir("/mnt"))
    /\ (pc = "exec" /\ op \in {"buildHost", "bakeHost"}) =>
          LET host == IF req.dockerHost = "" THEN DefaultDockerHost
                      ELSE req.dockerHost
          IN  /\ HasPrefix(host, "unix://") =>
                    /\ \E i \in 1..(Len(container) - 1) :
                          container[i].f = "WithUnixSocket"
                    /\ Has(container, WithEnvVariable("DOCKER_HOST",
                                                      "unix:///var/run/docker.sock"))
              /\ HasPrefix(host, "tcp://") =>
                    Has(container, WithEnvVariable("DOCKER_HOST", host))

\* build about to run with the socket of the host attached.
C9_Witness ==
    /\ pc = "exec"
    /\ op = "buildHost"
    /\ req.dockerHost = "unix:///tmp/d.sock"
    /\ container[Len(container)].f = "WithExec"
    /\ Has(container, WithUnixSocket("/var/run/docker.sock", "/tmp/d.sock"))

\* The sockets attached to container c and the values it sets DOCKER_HOST to.
Sockets(c) == {c[i] : i \in {k \in DOMAIN c : c[k].f = "WithUnixSocket"}}
DockerHosts(c) ==
    {c[i].b : i \in {k \in DOMAIN c : /\ c[k].f = "WithEnvVariable"
                                     /\ c[k].a = "DOCKER_HOST"}}

\* C10: build and bake called without docker host attach one socket, the
\* host's /var/run/docker.sock; called with a host that starts with tcp://
\* they attach no socket and set DOCKER_HOST to that very string.
C10_SocketWiring ==
    (pc = "exec" /\ op \in {"buildHost", "bakeHost"}) =>
        /\ req.dockerHost = "" =>
              Sockets(container) =
                 {WithUnixSocket("/var/run/docker.sock", "/var/run/docker.sock")}
        /\ (Len(req.dockerHost) >= 6 /\ SubSeq(req.dockerHost, 1, 6) = "tcp://") =>
              /\ Sockets(container) = {}
              /\ DockerHosts(container) = {req.dockerHost}

\* bake about to run against a docker host reached over tcp.
C10_Witness ==
    /\ pc = "exec"
    /\ op = "bakeHost"
    /\ req.dockerHost = "tcp://10.0.0.1:2375"
    /\ Sockets(container) = {}
    /\ DockerHosts(container) = {"tcp://10.0.0.1:2375"}

\* C11: build and bake called with a docker host unix://P attach exactly one
\* socket, the host's socket P without the scheme, at /var/run/docker.sock in
\* the container, and set DOCKER_HOST to unix:///var/run/docker.sock
\* whatever P is.
C11_UnixSocketWiring ==
    (/\ pc = "exec"
     /\ op \in {"buildHost", "bakeHost"}
     /\ Len(req.dockerHost) >= 7
     /\ SubSeq(req.dockerHost, 1, 7) = "unix://") =>
        LET P == SubSeq(req.dockerHost, 8, Len(req.dockerHost))
        IN  /\ Sockets(container) = {WithUnixSocket("/var/run/docker.sock", P)}
            /\ DockerHosts(container) = {"unix:///var/run/docker.sock"}
            /\ req.dockerHost = "unix:///tmp/d.sock" => P = "/tmp/d.sock"

\* bake about to run with the host socket /tmp/d.sock attached.
C11_Witness ==
    /\ pc = "exec"
    /\ op = "bakeHost"
    /\ req.dockerHost = "unix:///tmp/d.sock"
    /\ Sockets(container) = {WithUnixSocket("/var/run/docker.sock", "/tmp/d.sock")}
    /\ DockerHosts(container) = {"unix:///var/run/docker.sock"}

\* C12 as the specification states it: the container that Build, Bake or
\* bake runs its command on sets DEPOT_PROJECT_ID to the project, holds
\* DEPOT_TOKEN as a secret and never as a plain variable, works in the
\* mounted source tree /mnt, and sets DEPOT_DISABLE_OTEL.
C12_SideChannel ==
    (pc = "exec" /\ op \in {"Build", "Bake", "bake"}) =>
        /\ Has(container, WithMountedDirectory("/mnt", req.directory))
        /\ Has(container, WithEnvVariable("DEPOT_PROJECT_ID", req.project))
        /\ Has(container, WithSecretVariable("DEPOT_TOKEN", req.token))
        /\ \A i \in DOMAIN container :
              container[i].f = "WithEnvVariable" => container[i].a # "DEPOT_TOKEN"
        /\ Has(container, WithWorkdir("/mnt"))
        /\ \E i \in 1..(Len(container) - 1) :
              /\ container[i].f = "WithEnvVariable"
              /\ container[i].a = "DEPOT_DISABLE_OTEL"

\* The number of positions of argument vector a that hold x.
Count(a, x) == Cardinality({i \in DOMAIN a : a[i] = x})

\* The argument vector of the command the container is to run.
Argv(c) == c[Len(c)].a

\* C13: the command that Build, Bake and build of part_001 run has --save
\* among its arguments, once, exactly when the caller did not ask for
\* no-save; a caller that leaves noSave at its default gets --save.
C13_SaveUnlessNoSave ==
    (pc = "exec" /\ op \in {"Build", "Bake", "buildSBOMs"}) =>
        /\ Argv(container) = args
        /\ Count(args, "--save") = IF req.noSave THEN 0 ELSE 1
        /\ req.noSave = ZeroRequest.noSave => "--save" \in Range(args)

\* Build called with noSave runs a command without --save.
C13_Witness ==
    /\ pc = "exec"
    /\ op = "Build"
    /\ req.noSave
    /\ "--save" \notin Range(Argv(container))

\* The arguments of vector a that directly follow an occurrence of flag, in
\* the order of the vector.
RECURSIVE ValuesAfter(_, _)
ValuesAfter(a, flag) ==
    IF Len(a) < 2 THEN <<>>
    ELSE IF a[1] = flag
         THEN <<a[2]>> \o ValuesAfter(SubSeq(a, 3, Len(a)), flag)
         ELSE ValuesAfter(Tail(a), flag)

\* The list options of a build and the request field each one renders.
ListFlags ==
    {<<"--platform", "platforms">>, <<"--build-arg", "buildArgs">>,
     <<"--label", "labels">>, <<"--output", "outputs">>}

\* C14: in the command of a build every platform, build-arg, label and
\* output of the request is one flag followed by its value: the flag occurs
\* as often as the caller's list is long, and the values that follow it are
\* the caller's list in the caller's order.
C14_ListPairs ==
    (pc = "exec" /\ op \in {"Build", "buildSBOMs", "buildHost"}) =>
        /\ Argv(container) = args
        /\ \A o \in ListFlags :
              /\ Count(args, o[1]) = Len(req[o[2]])
              /\ ValuesAfter(args, o[1]) = req[o[2]]

\* Build of two platforms, arm64 named before amd64.
C14_Witness ==
    /\ pc = "exec"
    /\ op = "Build"
    /\ req.platforms = <<"linux/arm64", "linux/amd64">>
    /\ ValuesAfter(Argv(container), "--platform") = <<"linux/arm64", "linux/amd64">>

\* C15: the command of a build or bake has --file exactly when the request
\* names a dockerfile and --provenance exactly when it names a provenance,
\* each once and directly followed by the value of the request; a request
\* that names neither gives a command with neither flag, and no argument is
\* ever the empty string.
C15_OmitsEmptyOptions ==
    pc = "exec" =>
        /\ Argv(container) = args
        /\ Count(args, "--file") = IF req.dockerfile # "" THEN 1 ELSE 0
        /\ req.dockerfile # "" => ValuesAfter(args, "--file") = <<req.dockerfile>>
        /\ Count(args, "--provenance") = IF req.provenance # "" THEN 1 ELSE 0
        /\ req.provenance # "" =>
              ValuesAfter(args, "--provenance") = <<req.provenance>>
        /\ (req.dockerfile = "" /\ req.provenance = "") =>
              Range(args) \cap {"--file", "--provenance"} = {}
        /\ "" \notin Range(args)

\* Build called with a dockerfile and without provenance runs a command that
\* has --file Dockerfile and no --provenance.
C15_Witness ==
    /\ pc = "exec"
    /\ op = "Build"
    /\ req.dockerfile = "Dockerfile"
    /\ req.provenance = ""
    /\ ValuesAfter(Argv(container), "--file") = <<"Dockerfile">>
    /\ "--provenance" \notin Range(Argv(container))

\* C16 as the specification states it: the command of Build, Bake and bake
\* has the SBOM flag and --sbom-dir=/mnt/sboms when the request sets sbom and
\* has neither when it does not.
C16_SBOMDirArgument ==
    (pc = "exec" /\ op \in {"Build", "Bake", "bake"}) =>
        IF req.sbom
        THEN {"--sbom=true", "--sbom-dir=/mnt/sboms"} \subseteq Range(Argv(container))
        ELSE Range(Argv(container)) \cap {"--sbom=true", "--sbom-dir=/mnt/sboms"} = {}

\* The options that take their value as the next argument.
ValueFlags ==
    {"--tag", "--platform", "--build-arg", "--label", "--output", "--file",
     "--provenance"}

\* The option that position i of argument vector a belongs to: the flag at
\* i, or the flag before i when i holds its value; "" for the arguments that
\* come with the command itself.
OptionAt(a, i, rank) ==
    IF a[i] \in DOMAIN rank THEN a[i]
    ELSE IF i > 1 /\ a[i - 1] \in ValueFlags THEN a[i - 1]
    ELSE ""

\* The options of a lie in the order of rank, the command's own arguments
\* before them all.
InOrder(a, rank) ==
    LET r(i) == IF OptionAt(a, i, rank) = "" THEN 0
                ELSE rank[OptionAt(a, i, rank)]
    IN  \A i, k \in DOMAIN a : i < k => r(i) <= r(k)

\* Flags, then the lists in declaration order, then --file, then --provenance.
CategoryRank ==
    [f \in {"--save", "--load", "--sbom=true", "--sbom-dir=/mnt/sboms",
            "--no-cache", "--lint"} |-> 1] @@
    ("--tag" :> 2) @@ ("--platform" :> 3) @@ ("--build-arg" :> 4) @@
    ("--label" :> 5) @@ ("--output" :> 6) @@ ("--file" :> 7) @@
    ("--provenance" :> 8)

\* --save, the lists, --file, --provenance, and then sbom, no-cache, lint.
FlagsLastRank ==
    ("--save" :> 1) @@
    ("--tag" :> 2) @@ ("--platform" :> 3) @@ ("--build-arg" :> 4) @@
    ("--label" :> 5) @@ ("--output" :> 6) @@ ("--file" :> 7) @@
    ("--provenance" :> 8) @@ ("--sbom=true" :> 9) @@
    ("--sbom-dir=/mnt/sboms" :> 10) @@ ("--no-cache" :> 11) @@ ("--lint" :> 12)

\* load, sbom, no-cache, lint, then the lists, --file, --provenance.
FlagsFirstRank ==
    ("--load" :> 1) @@ ("--sbom=true" :> 2) @@ ("--no-cache" :> 3) @@
    ("--lint" :> 4) @@
    ("--tag" :> 5) @@ ("--platform" :> 6) @@ ("--build-arg" :> 7) @@
    ("--label" :> 8) @@ ("--output" :> 9) @@ ("--file" :> 10) @@
    ("--provenance" :> 11)

\* C17 as the specification states it: in the command of every build the
\* flags come first, then the lists in declaration order, then --file, then
\* --provenance, and no flag follows --file or --provenance.
C17_FlagsBeforeLists ==
    (pc = "exec" /\ op \in {"Build", "buildHost"}) =>
        InOrder(Argv(container), CategoryRank)

\* C17: the command of a build has its options in one fixed order.  For
\* build of the revision with a docker host it is load, sbom, no-cache,
\* lint, then the lists tag, platform, build-arg, label, output, then
\* --file, then --provenance.  For Build and for build of part_001 it is
\* --save, then the same lists, --file and --provenance, and after them
\* --sbom=true with --sbom-dir, --no-cache and --lint.
C17_OptionOrder ==
    pc = "exec" =>
        /\ op = "buildHost" => InOrder(Argv(container), FlagsFirstRank)
        /\ op \in {"Build", "buildSBOMs"} => InOrder(Argv(container), FlagsLastRank)

\* Build with a dockerfile and lint runs a command that ends in --file
\* Dockerfile --lint.
C17_Witness ==
    /\ pc = "exec"
    /\ op = "Build"
    /\ req.lint
    /\ Len(args) >= 3
    /\ SubSeq(Argv(container), Len(args) - 2, Len(args))
          = <<"--file", "Dockerfile", "--lint">>

OkString(j) == j.t \in {"null", "string"}
OkInt64(j) == j.t \in {"null", "number"}
OkDescriptor(j) ==
    j.t = "null" \/ (j.t = "object" /\ OkInt64(Member(j, "size")))
OkLayers(j) ==
    j.t = "null" \/ (j.t = "array" /\ \A i \in DOMAIN j.v : OkDescriptor(j.v[i]))
OkManifest(j) ==
    \/ j.t = "null"
    \/ /\ j.t = "object"
       /\ OkDescriptor(Member(j, "config"))
       /\ OkLayers(Member(j, "layers"))
OkManifests(j) ==
    j.t = "null" \/ (j.t = "array" /\ \A i \in DOMAIN j.v : OkManifest(j.v[i]))
OkDepotBuild(j) ==
    \/ j.t = "null"
    \/ /\ j.t = "object"
       /\ OkString(Member(j, "buildID"))
       /\ OkString(Member(j, "projectID"))
OkMetadata(j) ==
    \/ j.t = "null"
    \/ /\ j.t = "object"
       /\ OkDescriptor(Member(j, "containerimage.descriptor"))
       /\ OkString(Member(j, "image.name"))
       /\ OkManifests(Member(j, "manifests"))
OkBuildMetadata(j) ==
    j.t = "null" \/ (OkMetadata(j) /\ OkDepotBuild(Member(j, "depot.build")))
OkBakeMetadata(j) ==
    \/ j.t = "null"
    \/ /\ j.t = "object"
       /\ \A k \in DOMAIN j.v :
             IF k = "depot.build" THEN OkDepotBuild(j.v[k]) ELSE OkMetadata(j.v[k])

\* C19: Build, Bake and build return either an artifact (Bake: a set with
\* one artifact for each decoded target) and no error, or nil and an error.
\* What is returned without error comes from a run that exited with 0 and
\* whose metadata.json was there and decoded; a run that failed, a missing
\* metadata.json and one that does not decode return nil and the error.
C19_NoPartialSuccess ==
    [][(op' \in ArtifactOps /\ pc # "returned" /\ pc' = "returned") =>
          IF ret'.err = NoErr
          THEN /\ pc = "decoded"
               /\ live.exec.exit = 0
               /\ live.exec.metadata.t \notin {"missing", "invalid"}
               /\ IF op = "Bake"
                  THEN /\ OkBakeMetadata(live.exec.metadata)
                       /\ ret'.val.kind = "Artifacts"
                       /\ TargetsOf(ret'.val) = DOMAIN live.bakeMetadata.Targets
                       /\ Len(ret'.val.Artifacts)
                             = Cardinality(DOMAIN live.bakeMetadata.Targets)
                       /\ \A i \in DOMAIN ret'.val.Artifacts :
                             /\ ret'.val.Artifacts[i].kind = "BuildArtifact"
                             /\ ret'.val.Artifacts[i].Token = live.token
                             /\ ret'.val.Artifacts[i].Project = live.project
                  ELSE /\ OkBuildMetadata(live.exec.metadata)
                       /\ ret'.val.kind = "BuildArtifact"
                       /\ ret'.val.Token = live.token
                       /\ ret'.val.Project = live.project
                       /\ artifact' = ret'.val
          ELSE /\ ret'.val = Nil
               /\ artifact' = Nil]_vars

\* Build returned nil and the error of a run that exited with 1.
C19_Witness ==
    /\ pc = "returned"
    /\ op = "Build"
    /\ ret.err = ErrExec
    /\ ret.val = Nil
    /\ artifact = Nil

\* C20: whatever the order in which the keys of a bake metadata.json are
\* visited, Bake goes on to build its artifacts only when the value of
\* depot.build and the value of every target are well-formed; in every
\* other case it returns nil and the error, and no artifact is set.
C20_BakeDecodeFails ==
    [][(pc = "running" /\ op = "Bake") =>
          IF pc' = "decoded"
          THEN /\ live'.exec.metadata.t \in {"null", "object"}
               /\ OkBakeMetadata(live'.exec.metadata)
               /\ ret' = ret
          ELSE /\ pc' = "returned"
               /\ ret'.val = Nil
               /\ ret'.err \in {ErrExec, ErrNoFile, ErrSyntax, ErrTypeMap, ErrType}
               /\ artifact' = Nil]_vars

\* Bake returned nil and the error of a key whose value is not well-formed.
C20_Witness ==
    /\ pc = "returned"
    /\ op = "Bake"
    /\ ret.err = ErrType
    /\ ret.val = Nil
    /\ artifact = Nil

\* C21: the methods of a BuildArtifact that Build or build returned leave it
\* as it was returned: while the caller holds it, whatever Container,
\* ImageBytes, SBOM or SBOMs calls are made, its token, project, image name,
\* size or metadata and SBOM directory are those of the returned value, and
\* every ImageBytes call gives the image size of the returned value.
C21_ArtifactNotMutated ==
    [][(pc' = "returned" /\ op' \in {"Build", "buildSBOMs"} /\ ret'.val # Nil) =>
          /\ artifact' = ret'.val
          /\ pc = "returned" =>
                /\ ret' = ret
                /\ artifact'.Token = artifact.Token
                /\ artifact'.Project = artifact.Project
                /\ artifact'.SBOMDir = artifact.SBOMDir
                /\ IF op = "Build"
                   THEN /\ artifact'.ImageName = artifact.ImageName
                        /\ artifact'.Size = artifact.Size
                   ELSE artifact'.Metadata = artifact.Metadata
                /\ out'.method \in {"Container", "ImageBytes", "SBOM", "SBOMs"}
          /\ out'.method = "ImageBytes" => out'.val = ImageBytes(ret'.val).val]_vars

\* ImageBytes was called on an artifact of Build that has layers and an SBOM
\* directory, and the artifact is the one Build returned.
C21_Witness ==
    /\ pc = "returned"
    /\ op = "Build"
    /\ out.method = "ImageBytes"
    /\ out.val.n > 0
    /\ artifact = ret.val
    /\ artifact.SBOMDir # Nil

\* A docker host that is given and starts with neither unix:// nor tcp://.
OtherScheme(h) ==
    /\ h # ""
    /\ ~(Len(h) >= 7 /\ SubSeq(h, 1, 7) = "unix://")
    /\ ~(Len(h) >= 6 /\ SubSeq(h, 1, 6) = "tcp://")

\* C22: build and bake called with a docker host that starts with neither
\* unix:// nor tcp:// attach no socket and set no DOCKER_HOST; the container
\* still ends in the WithExec of the command, and it is returned with a nil
\* error.
C22_UnknownSchemeIgnored ==
    [][/\ (/\ pc' = "exec"
           /\ op' \in {"buildHost", "bakeHost"}
           /\ OtherScheme(req'.dockerHost)) =>
             /\ Sockets(container') = {}
             /\ DockerHosts(container') = {}
             /\ container'[Len(container')] = WithExec(args')
             /\ Count([i \in DOMAIN container' |-> container'[i].f], "WithExec") = 1
             /\ ret' = NoResult
       /\ (/\ pc = "exec"
           /\ op \in {"buildHost", "bakeHost"}
           /\ OtherScheme(req.dockerHost)) =>
             /\ pc' = "returned"
             /\ ret'.err = NoErr
             /\ ret'.val = [kind |-> "Container", ops |-> container]]_vars

\* build about to return its container for the docker host ssh://10.0.0.1:
\* nothing of the host is wired into it, and its command is marked to run.
C22_Witness ==
    /\ pc = "exec"
    /\ op = "buildHost"
    /\ req.dockerHost = "ssh://10.0.0.1"
    /\ Sockets(container) = {}
    /\ DockerHosts(container) = {}
    /\ container[Len(container)] = WithExec(args)
    /\ ret = NoResult

\* C23: a Bake that succeeds returns one artifact for each target of the
\* decoded metadata and no other: as many artifacts as targets, no two with
\* the same Target.  The artifact of a target has the size of that target's
\* metadata and the image name registry.depot.dev/<projectID>:<buildID>-<target>
\* with the identifiers decoded from depot.build, whatever image.name the
\* target's metadata carries.
C23_BakeArtifacts ==
    [][(pc = "decoded" /\ op = "Bake") =>
          LET m == live.bakeMetadata
              raw == live.exec.metadata
              a == ret'.val.Artifacts
              ids == IF raw.t = "object" /\ "depot.build" \in DOMAIN raw.v
                     THEN raw.v["depot.build"] ELSE JNull
          IN  /\ pc' = "returned"
              /\ ret'.err = NoErr
              /\ ret'.val.kind = "Artifacts"
              /\ Len(a) = Cardinality(DOMAIN m.Targets)
              /\ {a[i].Target : i \in DOMAIN a} = DOMAIN m.Targets
              /\ \A i, k \in DOMAIN a : a[i].Target = a[k].Target => i = k
              /\ \A i \in DOMAIN a :
                    /\ a[i].Size = ExpectedSize(m.Targets[a[i].Target])
                    /\ a[i].ImageName =
                          "registry.depot.dev/" \o StringAt(ids, "projectID") \o ":"
                          \o StringAt(ids, "buildID") \o "-" \o a[i].Target
                    /\ m.Targets[a[i].Target].ImageName = "app" =>
                          a[i].ImageName # "app"]_vars

\* Bake returned the artifacts of the targets web and api of build b7 of
\* project pj9, one of them with layers.
C23_Witness ==
    /\ pc = "returned"
    /\ op = "Bake"
    /\ ret.val.kind = "Artifacts"
    /\ Len(ret.val.Artifacts) = 2
    /\ \E i, k \in DOMAIN ret.val.Artifacts :
          /\ ret.val.Artifacts[i].Target = "web"
          /\ ret.val.Artifacts[i].ImageName = "registry.depot.dev/pj9:b7-web"
          /\ ret.val.Artifacts[i].Size > 0
          /\ ret.val.Artifacts[k].Target = "api"
          /\ ret.val.Artifacts[k].ImageName = "registry.depot.dev/pj9:b7-api"

====
